---- MODULE Spec2Model ----
(***************************************************************************)
(* Model of the three converters of the repository:                        *)
(*   src/extras/bz2_to_parquet.py        (single-output, pandas/pyarrow)   *)
(*   src/duckdb_csv_to_parquet.py        (mirrored, DuckDB)                *)
(*   src/extras/duckdb_bz2_to_parquet.py (single-output, DuckDB)           *)
(*                                                                         *)
(* Text values are sequences of one-character strings, so that the regex   *)
(* match, the 64-bit range tests and the numeric parse are computed on the *)
(* characters.  Integers of 64-bit range are kept as decimal digit         *)
(* sequences (sign + magnitude without leading zeros).                     *)
(***************************************************************************)
EXTENDS Integers, Sequences, FiniteSets, TLC

VARIABLES
    prog,        \* which converter runs: "bz2", "mirror", "duck", or a pure-function harness
    pc,          \* position of main
    cfg,         \* the run's inputs fixed at start (arguments, directory contents)
    fi,          \* index of the file the loop is at
    ci,          \* chunks the readers have yielded so far in the run
    writer,      \* bz2_to_parquet: the ParquetWriter (state, opens, closes, rows, writes outside open)
    schema,      \* bz2_to_parquet: the canonical schema (NoSchema until set)
    counters,    \* the run counters of the converter that runs
    fs,          \* destination side of the file system
    exit,        \* exit status (Running until the process ends)
    hist,        \* history of the run, kept for the properties
    fn_in,       \* pure-function harness: the input
    fn_out       \* pure-function harness: the result

vars == <<prog, pc, cfg, fi, ci, writer, schema, counters, fs, exit, hist, fn_in, fn_out>>

-----------------------------------------------------------------------------
(* Bounds of the model *)

MaxFiles == 2
MaxChunks == 2
MaxChunkRows == 2
MajorRows == 49
MinorRows == 1

-----------------------------------------------------------------------------
(* Characters and text *)

DigitChars == <<"0", "1", "2", "3", "4", "5", "6", "7", "8", "9">>
UpperChars == <<"A", "B", "C", "D", "E", "F", "G", "H", "I", "J", "K", "L", "M",
                "N", "O", "P", "Q", "R", "S", "T", "U", "V", "W", "X", "Y", "Z">>
LowerChars == <<"a", "b", "c", "d", "e", "f", "g", "h", "i", "j", "k", "l", "m",
                "n", "o", "p", "q", "r", "s", "t", "u", "v", "w", "x", "y", "z">>

Range(s) == {s[i] : i \in DOMAIN s}

IsDigit(c) == c \in Range(DigitChars)

DigitVal(c) == (CHOOSE i \in DOMAIN DigitChars : DigitChars[i] = c) - 1

IsDigits(s) == Len(s) > 0 /\ \A i \in DOMAIN s : IsDigit(s[i])

Drop(s, n) == SubSeq(s, n + 1, Len(s))

RECURSIVE StripZeros(_)
StripZeros(d) == IF Len(d) > 1 /\ d[1] = "0" THEN StripZeros(Tail(d)) ELSE d

RECURSIVE LexLE(_, _)
LexLE(a, b) ==
    IF Len(a) = 0 THEN TRUE
    ELSE IF DigitVal(a[1]) < DigitVal(b[1]) THEN TRUE
    ELSE IF DigitVal(a[1]) > DigitVal(b[1]) THEN FALSE
    ELSE LexLE(Tail(a), Tail(b))

\* a <= b for magnitudes written without leading zeros
MagLE(a, b) == Len(a) < Len(b) \/ (Len(a) = Len(b) /\ LexLE(a, b))

LowerChar(c) ==
    IF c \in Range(UpperChars)
    THEN LowerChars[CHOOSE i \in DOMAIN UpperChars : UpperChars[i] = c]
    ELSE c

StrLower(s) == [i \in DOMAIN s |-> LowerChar(s[i])]

\* 2^63 - 1, 2^63 and 2^64 - 1 as digits
Int64MaxMag == <<"9","2","2","3","3","7","2","0","3","6","8","5","4","7","7","5","8","0","7">>
Int64MinMag == <<"9","2","2","3","3","7","2","0","3","6","8","5","4","7","7","5","8","0","8">>
UInt64MaxMag == <<"1","8","4","4","6","7","4","4","0","7","3","7","0","9","5","5","1","6","1","5">>

-----------------------------------------------------------------------------
(* Cells, columns, frames *)

NA == [t |-> "NA"]
Str(s) == [t |-> "str", v |-> s]
IntCell(neg, dig) == [t |-> "int", neg |-> neg, dig |-> dig]
FloatCell(neg, dig, e) == [t |-> "float", neg |-> neg, dig |-> dig, exp |-> e]
BoolCell(b) == [t |-> "bool", v |-> b]

IsNA(c) == c.t = "NA"

Column(dtype, vals) == [dtype |-> dtype, vals |-> vals]

\* A DataFrame: its column names in order and its columns by name.
Frame(names, col) == [names |-> names, col |-> col]

\* len(df)
Rows(df) == IF Len(df.names) = 0 THEN 0 ELSE Len(df.col[df.names[1]].vals)

\* df.empty: no rows or no columns
IsEmpty(df) == Rows(df) = 0

-----------------------------------------------------------------------------
(* Parsers used by coerce_chunk *)

HasSign(s) == Len(s) > 0 /\ s[1] \in {"+", "-"}

Unsigned(s) == IF HasSign(s) THEN Tail(s) ELSE s

\* s_str.str.match(r'^[+-]?\d+$')
IntRegexMatch(s) == IsDigits(Unsigned(s))

\* s.str.contains('-', regex=False)
ContainsMinus(s) == \E i \in DOMAIN s : s[i] = "-"

\* Arrow's string -> int64 cast of one value: an optional '-', digits, leading
\* zeros skipped, the magnitude within [-2^63, 2^63 - 1].  It takes no '+'.
ArrowParseInt64(s) ==
    LET neg  == Len(s) > 0 /\ s[1] = "-"
        body == IF neg THEN Tail(s) ELSE s
        mag  == StripZeros(body)
        ok   == IsDigits(body)
                /\ MagLE(mag, IF neg THEN Int64MinMag ELSE Int64MaxMag)
    IN  IF ok THEN [ok |-> TRUE, cell |-> IntCell(neg /\ mag # <<"0">>, mag)]
        ELSE [ok |-> FALSE, cell |-> NA]

\* Arrow's string -> uint64 cast of one value: digits only, within [0, 2^64 - 1].
ArrowParseUInt64(s) ==
    LET mag == StripZeros(s)
        ok  == IsDigits(s) /\ MagLE(mag, UInt64MaxMag)
    IN  IF ok THEN [ok |-> TRUE, cell |-> IntCell(FALSE, mag)]
        ELSE [ok |-> FALSE, cell |-> NA]

IndexOf(s, set) ==
    IF \E i \in DOMAIN s : s[i] \in set
    THEN CHOOSE i \in DOMAIN s : s[i] \in set /\ \A j \in 1..(i - 1) : s[j] \notin set
    ELSE 0

RECURSIVE DigitsToNat(_)
DigitsToNat(d) ==
    IF Len(d) = 0 THEN 0
    ELSE 10 * DigitsToNat(SubSeq(d, 1, Len(d) - 1)) + DigitVal(d[Len(d)])

\* significand without trailing zeros, the exponent raised accordingly
RECURSIVE NormalizeFloat(_, _, _)
NormalizeFloat(neg, dig, e) ==
    IF dig = <<"0">> THEN FloatCell(FALSE, dig, 0)
    ELSE IF dig[Len(dig)] = "0" THEN NormalizeFloat(neg, SubSeq(dig, 1, Len(dig) - 1), e + 1)
    ELSE FloatCell(neg, dig, e)

\* pd.to_numeric(s, errors="coerce") of one text value: [sign] digits [. digits]
\* [e [sign] digits]; anything else becomes NaN.  The value is kept as an exact
\* decimal (sign, significand digits, power of ten).
ToNumeric(s) ==
    LET body == Unsigned(s)
        ePos == IndexOf(body, {"e", "E"})
        mant == IF ePos = 0 THEN body ELSE SubSeq(body, 1, ePos - 1)
        expo == IF ePos = 0 THEN <<>> ELSE Drop(body, ePos)
        dot  == IndexOf(mant, {"."})
        ip   == IF dot = 0 THEN mant ELSE SubSeq(mant, 1, dot - 1)
        fp   == IF dot = 0 THEN <<>> ELSE Drop(mant, dot)
        ok   == /\ Len(ip) + Len(fp) > 0
                /\ \A i \in DOMAIN ip : IsDigit(ip[i])
                /\ \A i \in DOMAIN fp : IsDigit(fp[i])
                /\ (ePos = 0 \/ IsDigits(Unsigned(expo)))
        ev   == IF ePos = 0 THEN 0
                ELSE IF HasSign(expo) /\ expo[1] = "-" THEN 0 - DigitsToNat(Unsigned(expo))
                ELSE DigitsToNat(Unsigned(expo))
        neg  == HasSign(s) /\ s[1] = "-"
    IN  IF ok THEN [ok |-> TRUE, cell |-> NormalizeFloat(neg, StripZeros(ip \o fp), ev - Len(fp))]
        ELSE [ok |-> FALSE, cell |-> NA]

IsBoolText(s) == StrLower(s) \in {<<"t", "r", "u", "e">>, <<"f", "a", "l", "s", "e">>}

-----------------------------------------------------------------------------
(* coerce_chunk *)

\* the fixed threshold 0.98, as a ratio
ThresholdNum == 98
ThresholdDen == 100

\* mean > 0.98 for `hits` true values among `n` counted values
AboveThreshold(hits, n) == n > 0 /\ ThresholdDen * hits > ThresholdNum * n

IsTextDtype(dtype) == dtype \in {"string", "object"}

\* s_str.astype("Int64[pyarrow]"): raises unless every non-null value parses
CastInt64(vals) ==
    LET one(c) == IF IsNA(c) THEN [ok |-> TRUE, cell |-> NA] ELSE ArrowParseInt64(c.v)
    IN  IF \A i \in DOMAIN vals : one(vals[i]).ok
        THEN [ok |-> TRUE, col |-> Column("int64", [i \in DOMAIN vals |-> one(vals[i]).cell])]
        ELSE [ok |-> FALSE, col |-> Column("string", vals)]

\* s_str.astype("UInt64[pyarrow]")
CastUInt64(vals) ==
    LET one(c) == IF IsNA(c) THEN [ok |-> TRUE, cell |-> NA] ELSE ArrowParseUInt64(c.v)
    IN  IF \A i \in DOMAIN vals : one(vals[i]).ok
        THEN [ok |-> TRUE, col |-> Column("uint64", [i \in DOMAIN vals |-> one(vals[i]).cell])]
        ELSE [ok |-> FALSE, col |-> Column("string", vals)]

\* step 1 of the loop body, once frac_int > 0.98
IntegerLadder(vals) ==
    LET isInt(c) == ~IsNA(c) /\ IntRegexMatch(c.v)
        has_negative == \E i \in DOMAIN vals : isInt(vals[i]) /\ ContainsMinus(vals[i].v)
    IN  IF CastInt64(vals).ok THEN CastInt64(vals).col
        ELSE IF ~has_negative /\ CastUInt64(vals).ok THEN CastUInt64(vals).col
        ELSE Column("string", vals)

\* num.astype("Float64[pyarrow]") after pd.to_numeric(errors="coerce")
FloatColumn(vals) ==
    Column("double", [i \in DOMAIN vals |->
        IF IsNA(vals[i]) THEN NA ELSE ToNumeric(vals[i].v).cell])

\* low.map({"true": True, "false": False}).astype("boolean[pyarrow]")
BoolColumn(vals) ==
    Column("bool", [i \in DOMAIN vals |->
        IF ~IsNA(vals[i]) /\ IsBoolText(vals[i].v)
        THEN BoolCell(StrLower(vals[i].v) = <<"t", "r", "u", "e">>)
        ELSE NA])

IntMatches(vals) == {i \in DOMAIN vals : ~IsNA(vals[i]) /\ IntRegexMatch(vals[i].v)}

NonNull(vals) == {i \in DOMAIN vals : ~IsNA(vals[i])}

NumMatches(vals) == {i \in DOMAIN vals : ~IsNA(vals[i]) /\ ToNumeric(vals[i].v).ok}

BoolMatches(vals) == {i \in DOMAIN vals : ~IsNA(vals[i]) /\ IsBoolText(vals[i].v)}

\* float(int_mask.mean()) > 0.98: the mean skips the nulls of the mask
FracIntAbove(vals) ==
    AboveThreshold(Cardinality(IntMatches(vals)), Cardinality(NonNull(vals)))

\* num.notna().mean() > 0.98: over every row
FracNumAbove(vals) == AboveThreshold(Cardinality(NumMatches(vals)), Len(vals))

\* low.isin(["true", "false"]).mean() > 0.98: over every row
FracBoolAbove(vals) == AboveThreshold(Cardinality(BoolMatches(vals)), Len(vals))

\* the body of `for col in df.columns`
CoerceColumn(c) ==
    IF ~IsTextDtype(c.dtype) THEN c
    ELSE IF FracIntAbove(c.vals) THEN IntegerLadder(c.vals)
    ELSE IF FracNumAbove(c.vals) THEN FloatColumn(c.vals)
    ELSE IF FracBoolAbove(c.vals) THEN BoolColumn(c.vals)
    ELSE c

coerce_chunk(df) ==
    Frame(df.names, [n \in DOMAIN df.col |-> CoerceColumn(df.col[n])])

-----------------------------------------------------------------------------
(* ensure_columns and the schema *)

\* a pyarrow schema: the field names in order and the type of each field
Schema(names, types) == [names |-> names, types |-> types]

NoSchema == [names |-> <<>>, types |-> <<>>, unset |-> TRUE]

Repeat(v, n) == [i \in 1..n |-> v]

\* for name in schema.names: if name not in df.columns: df[name] = pd.NA
\* (each new column goes to the end of the frame, NA in every row)
AddMissing(df, names) ==
    LET missing == SelectSeq(names, LAMBDA n : n \notin Range(df.names))
    IN  Frame(df.names \o missing,
              [n \in Range(df.names) \cup Range(missing) |->
                  IF n \in Range(df.names) THEN df.col[n]
                  ELSE Column("object", Repeat(NA, Rows(df)))])

\* mutant of SelectColumns: the frame is returned as it is
SelectColumns_ReturnsFrame(df, names) == df

\* df[schema.names]
SelectColumns(df, names) == Frame(names, [n \in Range(names) |-> df.col[n]])

ensure_columns(df, sch) == SelectColumns(AddMissing(df, sch.names), sch.names)

-----------------------------------------------------------------------------
(* Harness of coerce_chunk: one text column of up to three runs of values *)

T(chars) == Str(chars)

\* values a column is mostly made of
MajorValues ==
    { T(<<"7">>), T(<<"-","5">>), T(<<"0","0","7">>),
      T(Int64MinMag), T(UInt64MaxMag),
      T(<<"1",".","5">>), T(<<"2","e","3">>),
      T(<<"t","r","u","e">>), T(<<"F","a","l","s","e">>),
      T(<<"a","b","c">>) }

\* values that appear here and there
MinorValues ==
    MajorValues \cup
    { NA, T(<<"-">> \o Int64MinMag), T(<<"-">> \o Int64MaxMag \o <<"0">>),
      T(UInt64MaxMag \o <<"0">>), T(<<".","5">>), T(<<"1","e","-","2">>) }

\* a column written as runs <<[v, n], ...>> of n equal values v, and back
RECURSIVE Expand(_)
Expand(runs) ==
    IF Len(runs) = 0 THEN <<>>
    ELSE Repeat(runs[1].v, runs[1].n) \o Expand(Tail(runs))

RunLength(vals) ==
    LET starts == {i \in DOMAIN vals : i = 1 \/ vals[i] # vals[i - 1]}
        nth(k) == CHOOSE i \in starts : Cardinality({j \in starts : j < i}) = k - 1
        stop(k) == IF k = Cardinality(starts) THEN Len(vals) + 1 ELSE nth(k + 1)
    IN  [k \in 1..Cardinality(starts) |-> [v |-> vals[nth(k)], n |-> stop(k) - nth(k)]]

MajorCounts == {1, MajorRows, MajorRows + 1}

CoerceInputs ==
    { [dtype |-> "string",
       runs |-> SelectSeq(<<[v |-> a, n |-> na], [v |-> b, n |-> nb], [v |-> c, n |-> nc]>>,
                          LAMBDA r : r.n > 0)] :
        a \in MajorValues, b \in MinorValues, c \in MinorValues,
        na \in MajorCounts, nb \in 0..MinorRows, nc \in 0..MinorRows }

\* the one-column DataFrame the harness hands to coerce_chunk
InputFrame(in) ==
    Frame(<<"a">>, [n \in {"a"} |-> Column(in.dtype, Expand(in.runs))])

Idle == [state |-> "none"]

InitCoerce ==
    /\ prog = "coerce_chunk"
    /\ pc = "call"
    /\ fn_in \in CoerceInputs
    /\ fn_out = Idle
    /\ cfg = Idle /\ fi = 0 /\ ci = 0 /\ writer = Idle /\ schema = Idle
    /\ counters = Idle /\ fs = Idle /\ exit = Idle /\ hist = Idle

CallCoerce ==
    /\ prog = "coerce_chunk" /\ pc = "call"
    /\ fn_out' = LET out == coerce_chunk(InputFrame(fn_in)).col["a"]
                  IN  [dtype |-> out.dtype, runs |-> RunLength(out.vals)]
    /\ pc' = "returned"
    /\ UNCHANGED <<prog, cfg, fi, ci, writer, schema, counters, fs, exit, hist, fn_in>>

NextCoerce == CallCoerce

SpecCoerce == InitCoerce /\ [][NextCoerce]_vars

-----------------------------------------------------------------------------
(* Properties of coerce_chunk *)

CoerceReturned == prog = "coerce_chunk" /\ pc = "returned"

\* what a matched integer text denotes
IntTextNeg(s) == Len(s) > 0 /\ s[1] = "-"
IntTextMag(s) == StripZeros(Unsigned(s))
IntTextValue(s) == IntCell(IntTextNeg(s) /\ IntTextMag(s) # <<"0">>, IntTextMag(s))
FitsSigned64(s) == MagLE(IntTextMag(s), IF IntTextNeg(s) THEN Int64MinMag ELSE Int64MaxMag)
FitsUnsigned64(s) == ~IntTextNeg(s) /\ MagLE(IntTextMag(s), UInt64MaxMag)

MatchedTexts(vals) == {vals[i].v : i \in IntMatches(vals)}

\* C8: integer coercion ladder.  A text column whose fraction of non-null values
\* matching ^[+-]?digits$ is strictly above 0.98 ends as int64 when every matched
\* value fits in signed 64-bit; otherwise as uint64 when no matched value carries
\* a minus sign and every matched value fits in unsigned 64-bit; otherwise it
\* stays text with every value preserved; it never ends as float or boolean.
C8_IntegerLadder ==
    CoerceReturned =>
        LET vals == Expand(fn_in.runs)
            out  == Column(fn_out.dtype, Expand(fn_out.runs))
            m    == MatchedTexts(vals)
        IN  (IsTextDtype(fn_in.dtype) /\ FracIntAbove(vals)) =>
                /\ out.dtype \notin {"double", "bool"}
                /\ IF \A s \in m : FitsSigned64(s) THEN out.dtype = "int64"
                   ELSE IF (\A s \in m : ~ContainsMinus(s)) /\ (\A s \in m : FitsUnsigned64(s))
                        THEN out.dtype = "uint64"
                   ELSE out = Column("string", vals)

\* C9: threshold tolerance.  For integer, float and boolean alike, a text column
\* whose matching fraction is strictly above 0.98 is converted to that type even
\* when the fraction is below 1: exactly the values that do not match the winning
\* type are null and every matching value keeps its value; a column at 0.98 or
\* less on all three tests stays text.
C9_ThresholdTolerance ==
    CoerceReturned =>
        LET vals == Expand(fn_in.runs)
            out  == Column(fn_out.dtype, Expand(fn_out.runs))
        IN  IsTextDtype(fn_in.dtype) =>
              IF FracIntAbove(vals) THEN
                   (\A s \in MatchedTexts(vals) : FitsSigned64(s)) =>
                       /\ out.dtype = "int64"
                       /\ \A i \in DOMAIN vals :
                            out.vals[i] = IF i \in IntMatches(vals)
                                          THEN IntTextValue(vals[i].v) ELSE NA
              ELSE IF FracNumAbove(vals) THEN
                   /\ out.dtype = "double"
                   /\ \A i \in DOMAIN vals :
                        out.vals[i] = IF i \in NumMatches(vals)
                                      THEN ToNumeric(vals[i].v).cell ELSE NA
              ELSE IF FracBoolAbove(vals) THEN
                   /\ out.dtype = "bool"
                   /\ \A i \in DOMAIN vals :
                        out.vals[i] = IF i \in BoolMatches(vals)
                                      THEN BoolCell(StrLower(vals[i].v) = <<"t","r","u","e">>)
                                      ELSE NA
              ELSE out = Column(fn_in.dtype, vals)

-----------------------------------------------------------------------------
(* Chunks a reader can yield *)

ColumnNames == {"a", "b", "c"}

\* every order of every non-empty choice of columns
ColumnOrders ==
    { q \in UNION {[1..k -> ColumnNames] : k \in 1..Cardinality(ColumnNames)} :
        \A i, j \in DOMAIN q : i # j => q[i] # q[j] }

NameDigit(n) == CASE n = "a" -> "1" [] n = "b" -> "2" [] OTHER -> "3"

\* the value of column n in row i: distinct per column and per row
\*   "digits": text such as "12" (column a, row 2)
\*   "words" : text such as "x12"
\*   "typed" : a column the reader already typed as int64
RawCell(kind, n, i) ==
    CASE kind = "digits" -> Str(<<NameDigit(n), DigitChars[i + 1]>>)
      [] kind = "words"  -> Str(<<"x", NameDigit(n), DigitChars[i + 1]>>)
      [] OTHER           -> IntCell(FALSE, <<NameDigit(n), DigitChars[i + 1]>>)

RawChunk(names, nrows, kind) ==
    Frame(names, [n \in Range(names) |->
        Column(IF kind = "typed" THEN "int64" ELSE "string",
               [i \in 1..nrows |-> RawCell(kind, n, i)])])

ChunkKinds == {"digits", "words", "typed"}

ChunkPool ==
    { RawChunk(q, r, k) : q \in ColumnOrders, r \in 0..MaxChunkRows, k \in ChunkKinds }

\* the chunks the readers of the pipeline yield
PipelineOrders == {<<"a", "b">>, <<"a", "c">>, <<"b", "a">>}

PipelineChunks ==
    { RawChunk(q, r, k) : q \in PipelineOrders, r \in {0, 1, MaxChunkRows}, k \in ChunkKinds }

SchemaPool == { Schema(q, [i \in DOMAIN q |-> t]) : q \in ColumnOrders, t \in {"string", "int64"} }

-----------------------------------------------------------------------------
(* Harness of ensure_columns *)

InitEnsure ==
    /\ prog = "ensure_columns"
    /\ pc = "call"
    /\ fn_in \in [df : ChunkPool, schema : SchemaPool]
    /\ fn_out = Idle
    /\ cfg = Idle /\ fi = 0 /\ ci = 0 /\ writer = Idle /\ schema = Idle
    /\ counters = Idle /\ fs = Idle /\ exit = Idle /\ hist = Idle

CallEnsure ==
    /\ prog = "ensure_columns" /\ pc = "call"
    /\ fn_out' = ensure_columns(fn_in.df, fn_in.schema)
    /\ pc' = "returned"
    /\ UNCHANGED <<prog, cfg, fi, ci, writer, schema, counters, fs, exit, hist, fn_in>>

NextEnsure == CallEnsure

SpecEnsure == InitEnsure /\ [][NextEnsure]_vars

EnsureReturned == prog = "ensure_columns" /\ pc = "returned"

\* C2: reconciliation of a later batch.  The result of ensure_columns(B, S) has
\* exactly the columns of S in the order of S; a column of S that B lacks is null
\* in every row; a column of B that is not in S is absent; a column in both keeps,
\* row by row, the values it had in B.
C2_EnsureColumns ==
    EnsureReturned =>
        LET B == fn_in.df
            S == fn_in.schema.names
            R == fn_out
        IN  /\ R.names = S
            /\ DOMAIN R.col = Range(S)
            /\ \A n \in Range(S) :
                 IF n \in Range(B.names)
                 THEN R.col[n].vals = B.col[n].vals
                 ELSE /\ Len(R.col[n].vals) = Rows(B)
                      /\ \A i \in 1..Rows(B) : R.col[n].vals[i] = NA
            /\ \A n \in Range(B.names) \ Range(S) : n \notin DOMAIN R.col /\ n \notin Range(R.names)

\* C2 witness: canonical [a,b], batch [a,c] with rows: b is added, c is dropped, a is kept
C2_Witness ==
    /\ EnsureReturned
    /\ fn_in.schema.names = <<"a", "b">>
    /\ fn_in.df.names = <<"a", "c">>
    /\ Rows(fn_in.df) = MaxChunkRows
    /\ fn_out.names = <<"a", "b">>
    /\ fn_out.col["a"] = fn_in.df.col["a"]
    /\ fn_out.col["b"].vals = Repeat(NA, MaxChunkRows)

-----------------------------------------------------------------------------
(* State shared by the three converters *)

\* exit statuses: a normal return, sys.exit(1) / SystemExit(message) / an uncaught
\* exception, and sys.exit(2)
ExitSuccess == 0
ExitFailure == 1
ExitEmpty == 2

\* exit is <<>> while the process runs and <<status>> once it has ended
Exited(code) == <<code>>

NoTable == [names |-> <<>>, types |-> <<>>, rows |-> 0]

NoChunk == [read |-> 0, coerced |-> 0, ensured |-> 0, table |-> 0, written |-> 0]

Counters0 ==
    [total_rows |-> 0, files_done |-> 0, file_rows |-> 0,
     total |-> 0, converted |-> 0, skipped |-> 0]

Writer0 == [state |-> "none", opens |-> 0, closes |-> 0, rows |-> 0, stray |-> 0]

Fs0 == [out_parent |-> FALSE, out_file |-> FALSE, dst |-> <<>>, tempdir |-> "none"]

Hist0 ==
    [firstCols |-> <<>>,      \* columns of the first non-empty chunk the loop met
     nonEmpty |-> 0,          \* non-empty chunks met so far
     schemaSets |-> 0,        \* assignments to `schema`
     openedAt |-> 0,          \* value of nonEmpty when the writer was opened
     lastTable |-> NoTable,   \* the table last handed to writer.write_table
     last |-> NoChunk,        \* row counts of the last chunk along the pipeline
     chunkRows |-> 0,         \* rows of all chunks written
     failed |-> {},           \* files whose reading or conversion failed
     ended |-> {},            \* files whose loop iteration ran to its end
     called |-> {},           \* files convert_one was called for
     failure |-> "none",      \* what raised out of main, if anything
     fileChunks |-> 0,        \* chunks the reader of the current file has yielded
     empty |-> {},            \* files met that were entirely empty
     skipped |-> {},          \* files reported as skipped
     dst0 |-> <<>>,           \* the mirrored destinations as the run found them
     summary |-> FALSE]       \* the final "Done." line was printed

Cfg0 ==
    [in_dir_ok |-> TRUE, nfiles |-> 0, do_coerce |-> FALSE, rg_size |-> 0,
     old_pyarrow |-> FALSE, overwrite |-> FALSE, keep_temp |-> FALSE,
     direct |-> FALSE, nbz2 |-> 0]

-----------------------------------------------------------------------------
(* bz2_to_parquet: the writer *)

\* pq.ParquetWriter(str(out_path), schema=schema, ...)
ParquetWriter(w) == [w EXCEPT !.state = "open", !.opens = @ + 1]

\* writer.write_table(table) of a table of n rows
write_table(w, n) ==
    IF w.state = "open" THEN [w EXCEPT !.rows = @ + n] ELSE [w EXCEPT !.stray = @ + 1]

\* writer.close()
Close(w) == [w EXCEPT !.state = "closed", !.closes = @ + 1]

\* mutant of FinallyClose: the finally block closes nothing
FinallyClose_Skips(w) == w

\* finally: if writer is not None: writer.close()
FinallyClose(w) == IF w.state = "none" THEN w ELSE Close(w)

\* mutant of SliceStarts: the range stops one row early
SliceStarts_StopsEarly(n, rg) == {k \in 0..(n - 2) : k % rg = 0}

\* range(0, table.num_rows, rg_size)
SliceStarts(n, rg) == {k \in 0..(n - 1) : k % rg = 0}

\* table.slice(start, rg_size).num_rows
SliceRows(n, start, rg) == IF start + rg <= n THEN rg ELSE n - start

RECURSIVE WriteSlices(_, _, _, _)
WriteSlices(w, n, starts, rg) ==
    IF starts = {} THEN w
    ELSE LET k == CHOOSE x \in starts : \A y \in starts : x <= y
         IN  WriteSlices(write_table(w, SliceRows(n, k, rg)), n, starts \ {k}, rg)

\* try: writer.write_table(table, row_group_size=rg_size)
\* except TypeError: split manually if needed (older pyarrow)
WriteChunk(w, n, rg, old) ==
    IF ~old THEN write_table(w, n)
    ELSE IF rg > 0 /\ n > rg THEN WriteSlices(w, n, SliceStarts(n, rg), rg)
    ELSE write_table(w, n)

\* pa.Table.from_pandas(chunk, preserve_index=False)
FromPandas(df) ==
    [names |-> df.names,
     types |-> [i \in DOMAIN df.names |-> df.col[df.names[i]].dtype],
     rows  |-> Rows(df)]

\* pa.Table.from_pandas(chunk, schema=schema, preserve_index=False)
FromPandasWithSchema(df, sch) ==
    [names |-> sch.names, types |-> sch.types, rows |-> Rows(df)]

\* a column whose dtype is not the schema's type (an all-NA object column converts
\* to any type): the conversion to the schema's type can raise
TypeMismatch(df, sch) ==
    \E i \in DOMAIN sch.names :
        df.col[sch.names[i]].dtype \notin {sch.types[i], "object"}

\* schema = table.schema
SchemaOf(table) == Schema(table.names, table.types)

\* mutant of SchemaIsNone: every chunk is taken for the first one
SchemaIsNone_Always(sch) == TRUE

\* if schema is None
SchemaIsNone(sch) == sch = NoSchema

\* mutant of WriterIsNone: the empty result is not noticed
WriterIsNone_Never(w) == FALSE

\* if writer is None
WriterIsNone(w) == w.state = "none"

-----------------------------------------------------------------------------
(* bz2_to_parquet: main *)

\* --row-group-size and whether write_table takes row_group_size: a current
\* pyarrow with no row-group limit, an older one with row groups of one row
WriteSetups == {[rg_size |-> 0, old_pyarrow |-> FALSE], [rg_size |-> 1, old_pyarrow |-> TRUE]}

Bz2Configs ==
    { [Cfg0 EXCEPT !.in_dir_ok = d, !.nfiles = n, !.do_coerce = c,
                   !.rg_size = ws.rg_size, !.old_pyarrow = ws.old_pyarrow] :
        d \in BOOLEAN, n \in 0..MaxFiles, c \in BOOLEAN, ws \in WriteSetups }

\* the body of `for chunk in chunks` up to the table, for a non-empty chunk
Coerced(chunk) == IF cfg.do_coerce THEN coerce_chunk(chunk) ELSE chunk

Reconciled(chunk) ==
    IF SchemaIsNone(schema) THEN Coerced(chunk) ELSE ensure_columns(Coerced(chunk), schema)

TableOf(chunk) ==
    IF SchemaIsNone(schema) THEN FromPandas(Coerced(chunk))
    ELSE FromPandasWithSchema(Reconciled(chunk), schema)

\* lines 211-237: the checks before the loop, the output directory, the loop's variables
Bz2Start ==
    /\ prog = "bz2" /\ pc = "start"
    /\ IF ~cfg.in_dir_ok \/ cfg.nfiles = 0
       THEN /\ exit' = Exited(ExitFailure)
            /\ pc' = "done"
            /\ UNCHANGED <<fs, fi>>
       ELSE /\ fs' = [fs EXCEPT !.out_parent = TRUE]
            /\ fi' = 1
            /\ pc' = "loop"
            /\ UNCHANGED exit
    /\ UNCHANGED <<prog, cfg, ci, writer, schema, counters, hist, fn_in, fn_out>>

\* lines 250-252: the reader yields an empty chunk
Bz2EmptyChunk ==
    /\ prog = "bz2" /\ pc = "loop" /\ fi <= cfg.nfiles /\ ci < MaxChunks
    /\ \E chunk \in PipelineChunks :
        /\ IsEmpty(chunk)
        /\ ci' = ci + 1
    /\ hist' = [hist EXCEPT !.fileChunks = @ + 1]
    /\ UNCHANGED <<prog, pc, cfg, fi, writer, schema, counters, fs, exit, fn_in, fn_out>>

\* lines 250-301: the reader yields a non-empty chunk and the loop body completes
Bz2Chunk ==
    /\ prog = "bz2" /\ pc = "loop" /\ fi <= cfg.nfiles /\ ci < MaxChunks
    /\ \E chunk \in PipelineChunks :
        /\ ~IsEmpty(chunk)
        /\ LET first == SchemaIsNone(schema)
               table == TableOf(chunk)
               r     == Rows(Reconciled(chunk))
               w     == WriteChunk(IF first THEN ParquetWriter(writer) ELSE writer,
                                   table.rows, cfg.rg_size, cfg.old_pyarrow)
           IN  /\ schema' = IF first THEN SchemaOf(table) ELSE schema
               /\ writer' = w
               /\ fs' = IF first THEN [fs EXCEPT !.out_file = TRUE] ELSE fs
               /\ counters' = [counters EXCEPT !.file_rows = @ + r, !.total_rows = @ + r]
               /\ hist' = [hist EXCEPT
                              !.firstCols = IF hist.nonEmpty = 0 THEN chunk.names ELSE @,
                              !.nonEmpty = @ + 1,
                              !.schemaSets = IF first THEN @ + 1 ELSE @,
                              !.openedAt = IF first THEN hist.nonEmpty + 1 ELSE @,
                              !.lastTable = table,
                              !.last = [read |-> Rows(chunk), coerced |-> Rows(Coerced(chunk)),
                                        ensured |-> r, table |-> table.rows,
                                        written |-> w.rows - writer.rows],
                              !.chunkRows = @ + Rows(chunk),
                              !.fileChunks = @ + 1]
        /\ ci' = ci + 1
    /\ UNCHANGED <<prog, pc, cfg, fi, exit, fn_in, fn_out>>

\* lines 250-297 and 313-315: the loop body raises on a non-empty chunk
\*   "convert": from_pandas(chunk, schema=schema) cannot convert a column
\*   "open"   : ParquetWriter(...) cannot create the output file
\*   "write"  : write_table fails
\* the exception leaves main through the finally block
Bz2ChunkRaises ==
    /\ prog = "bz2" /\ pc = "loop" /\ fi <= cfg.nfiles /\ ci < MaxChunks
    /\ \E chunk \in PipelineChunks, fault \in {"convert", "open", "write"} :
        /\ ~IsEmpty(chunk)
        /\ LET first == SchemaIsNone(schema)
               table == TableOf(chunk)
               opened == IF first /\ fault = "write" THEN ParquetWriter(writer) ELSE writer
           IN  /\ fault = "convert" => ~first /\ TypeMismatch(Reconciled(chunk), schema)
               /\ fault = "open" => first
               /\ schema' = IF first THEN SchemaOf(table) ELSE schema
               /\ writer' = FinallyClose(opened)
               /\ fs' = IF first /\ fault = "write" THEN [fs EXCEPT !.out_file = TRUE] ELSE fs
               /\ hist' = [hist EXCEPT
                              !.firstCols = IF hist.nonEmpty = 0 THEN chunk.names ELSE @,
                              !.nonEmpty = @ + 1,
                              !.schemaSets = IF first THEN @ + 1 ELSE @,
                              !.openedAt = IF first /\ fault = "write" THEN hist.nonEmpty + 1 ELSE @,
                              !.lastTable = IF fault = "write" THEN table ELSE @,
                              !.failed = IF fault = "convert" THEN @ \cup {fi} ELSE @,
                              !.failure = fault,
                              !.fileChunks = @ + 1]
    /\ exit' = Exited(ExitFailure)
    /\ pc' = "done"
    /\ UNCHANGED <<prog, cfg, fi, ci, counters, fn_in, fn_out>>

\* lines 109-137 and 303-307: the reader is exhausted, at the end of the file or by an
\* error the generator catches (EmptyDataError for csv, ValueError for jsonl)
\*   "empty": the file is a bz2 stream of no data at all; read_csv raises
\*            EmptyDataError, the line reader of read_json ends at once
Bz2EndFile ==
    /\ prog = "bz2" /\ pc = "loop" /\ fi <= cfg.nfiles
    /\ \E how \in {"eof", "caught", "empty"} :
        /\ how = "empty" => hist.fileChunks = 0
        /\ hist' = [hist EXCEPT !.ended = @ \cup {fi},
                                !.failed = IF how = "caught" THEN @ \cup {fi} ELSE @,
                                !.empty = IF how = "empty" THEN @ \cup {fi} ELSE @,
                                !.skipped = IF counters.file_rows > 0 THEN @ ELSE @ \cup {fi},
                                !.fileChunks = 0]
    /\ counters' = [counters EXCEPT
                       !.files_done = IF counters.file_rows > 0 THEN @ + 1 ELSE @,
                       !.file_rows = 0]
    /\ fi' = fi + 1
    /\ UNCHANGED <<prog, pc, cfg, ci, writer, schema, fs, exit, fn_in, fn_out>>

\* lines 109-137 and 313-315: the reader raises an error the generator does not catch
\* (a corrupt or truncated bz2 stream, a csv ParserError, a decoding error for csv);
\* the exception leaves main through the finally block
\*   "zero_bytes": the file has no bytes at all, so it is not a bz2 stream and the
\*                 first read of the decompressor raises EOFError
Bz2ReadRaises ==
    /\ prog = "bz2" /\ pc = "loop" /\ fi <= cfg.nfiles
    /\ writer' = FinallyClose(writer)
    /\ \E what \in {"corrupt", "zero_bytes"} :
        /\ what = "zero_bytes" => hist.fileChunks = 0
        /\ hist' = [hist EXCEPT !.failed = @ \cup {fi}, !.failure = "read",
                                !.empty = IF what = "zero_bytes" THEN @ \cup {fi} ELSE @]
    /\ exit' = Exited(ExitFailure)
    /\ pc' = "done"
    /\ UNCHANGED <<prog, cfg, fi, ci, schema, counters, fs, fn_in, fn_out>>

\* lines 309-318: after the last file
Bz2Finish ==
    /\ prog = "bz2" /\ pc = "loop" /\ fi = cfg.nfiles + 1
    /\ IF WriterIsNone(writer)
       THEN /\ exit' = Exited(ExitEmpty)
            /\ writer' = FinallyClose(writer)
            /\ UNCHANGED hist
       ELSE /\ writer' = FinallyClose(writer)
            /\ hist' = [hist EXCEPT !.summary = TRUE]
            /\ exit' = Exited(ExitSuccess)
    /\ pc' = "done"
    /\ UNCHANGED <<prog, cfg, fi, ci, schema, counters, fs, fn_in, fn_out>>

-----------------------------------------------------------------------------
(* duckdb_csv_to_parquet: main *)

MirrorConfigs ==
    { [Cfg0 EXCEPT !.in_dir_ok = d, !.nfiles = n, !.overwrite = o] :
        d \in BOOLEAN, n \in 0..MaxFiles, o \in BOOLEAN }

\* the mirrored destinations before the run: absent, or left by an earlier run
DstStates(n) == [1..n -> {"absent", "old"}]

\* mutant of SkipsExisting: an existing destination is never skipped
SkipsExisting_Never(dst, overwrite) == FALSE

\* if dst.exists() and not args.overwrite
SkipsExisting(dst, overwrite) == dst # "absent" /\ ~overwrite

\* lines 73-91: the output directory, the input check, the connection, the counters
MirrorStart ==
    /\ prog = "mirror" /\ pc = "start"
    /\ fs' = [fs EXCEPT !.out_parent = TRUE]
    /\ IF ~cfg.in_dir_ok
       THEN /\ exit' = Exited(ExitFailure)
            /\ pc' = "done"
            /\ UNCHANGED fi
       ELSE /\ fi' = 1
            /\ pc' = "loop"
            /\ UNCHANGED exit
    /\ hist' = [hist EXCEPT !.dst0 = fs.dst]
    /\ UNCHANGED <<prog, cfg, ci, writer, schema, counters, fn_in, fn_out>>

\* lines 93-101: the destination exists and --overwrite is not set
MirrorSkip ==
    /\ prog = "mirror" /\ pc = "loop" /\ fi <= cfg.nfiles
    /\ SkipsExisting(fs.dst[fi], cfg.overwrite)
    /\ counters' = [counters EXCEPT !.total = @ + 1, !.skipped = @ + 1]
    /\ hist' = [hist EXCEPT !.ended = @ \cup {fi}, !.skipped = @ \cup {fi}]
    /\ fi' = fi + 1
    /\ UNCHANGED <<prog, pc, cfg, ci, writer, schema, fs, exit, fn_in, fn_out>>

\* lines 93-115: convert_one succeeds
MirrorConvert ==
    /\ prog = "mirror" /\ pc = "loop" /\ fi <= cfg.nfiles
    /\ ~SkipsExisting(fs.dst[fi], cfg.overwrite)
    /\ counters' = [counters EXCEPT !.total = @ + 1, !.converted = @ + 1]
    /\ fs' = [fs EXCEPT !.dst[fi] = "new"]
    /\ hist' = [hist EXCEPT !.ended = @ \cup {fi}, !.called = @ \cup {fi}]
    /\ fi' = fi + 1
    /\ UNCHANGED <<prog, pc, cfg, ci, writer, schema, exit, fn_in, fn_out>>

\* lines 93-117: convert_one raises (an unreadable or malformed csv, a failed COPY);
\* the destination is left as it was or partly written
MirrorConvertFails ==
    /\ prog = "mirror" /\ pc = "loop" /\ fi <= cfg.nfiles
    /\ ~SkipsExisting(fs.dst[fi], cfg.overwrite)
    /\ counters' = [counters EXCEPT !.total = @ + 1]
    /\ \E left \in {fs.dst[fi], "partial"} : fs' = [fs EXCEPT !.dst[fi] = left]
    /\ hist' = [hist EXCEPT !.ended = @ \cup {fi}, !.called = @ \cup {fi},
                            !.failed = @ \cup {fi}]
    /\ fi' = fi + 1
    /\ UNCHANGED <<prog, pc, cfg, ci, writer, schema, exit, fn_in, fn_out>>

\* lines 119-120: the summary
MirrorFinish ==
    /\ prog = "mirror" /\ pc = "loop" /\ fi = cfg.nfiles + 1
    /\ hist' = [hist EXCEPT !.summary = TRUE]
    /\ exit' = Exited(ExitSuccess)
    /\ pc' = "done"
    /\ UNCHANGED <<prog, cfg, fi, ci, writer, schema, counters, fs, fn_in, fn_out>>

-----------------------------------------------------------------------------
(* duckdb_bz2_to_parquet: main *)

\* the top level of the input directory: `direct` says whether files match the
\* globs of the format (.csv, .jsonl, ... also .gz and .zst), nbz2 counts the
\* .bz2 files, nfiles counts every file (those that match nothing included)
DuckConfigs ==
    { [Cfg0 EXCEPT !.in_dir_ok = d, !.nfiles = n, !.nbz2 = b, !.direct = g, !.keep_temp = k] :
        d \in BOOLEAN, n \in 0..(MaxFiles + 1), b \in 0..MaxFiles, g \in BOOLEAN, k \in BOOLEAN }

DuckConfigOk(c) == c.nbz2 + (IF c.direct THEN 1 ELSE 0) <= c.nfiles

\* if tempdir and not args.keep_temp: shutil.rmtree(tempdir, ignore_errors=True)
CleanTemp(f, keep) ==
    IF f.tempdir = "present" /\ ~keep THEN [f EXCEPT !.tempdir = "removed"] ELSE f

\* lines 161-181: the checks, build_inputs, the temp directory
DuckStart ==
    /\ prog = "duck" /\ pc = "start"
    /\ IF ~cfg.in_dir_ok \/ cfg.nfiles = 0
       THEN /\ exit' = Exited(ExitFailure)
            /\ pc' = "done"
            /\ UNCHANGED <<fs, fi>>
       ELSE IF cfg.nbz2 > 0
       THEN /\ fs' = [fs EXCEPT !.tempdir = "present"]
            /\ fi' = 1
            /\ pc' = "transcode"
            /\ UNCHANGED exit
       ELSE /\ pc' = "copy"
            /\ UNCHANGED <<fs, fi, exit>>
    /\ UNCHANGED <<prog, cfg, ci, writer, schema, counters, hist, fn_in, fn_out>>

\* lines 185-190: one .bz2 file is transcoded
DuckTranscode ==
    /\ prog = "duck" /\ pc = "transcode" /\ fi <= cfg.nbz2
    /\ hist' = [hist EXCEPT !.ended = @ \cup {fi}]
    /\ fi' = fi + 1
    /\ pc' = IF fi = cfg.nbz2 THEN "copy" ELSE "transcode"
    /\ UNCHANGED <<prog, cfg, ci, writer, schema, counters, fs, exit, fn_in, fn_out>>

\* line 189: transcode_bz2_to_zst raises; nothing catches it
DuckTranscodeRaises ==
    /\ prog = "duck" /\ pc = "transcode" /\ fi <= cfg.nbz2
    /\ hist' = [hist EXCEPT !.failed = @ \cup {fi}, !.failure = "transcode"]
    /\ exit' = Exited(ExitFailure)
    /\ pc' = "done"
    /\ UNCHANGED <<prog, cfg, fi, ci, writer, schema, counters, fs, fn_in, fn_out>>

\* lines 192-196: nothing to scan
DuckNoInputs ==
    /\ prog = "duck" /\ pc = "copy"
    /\ ~cfg.direct /\ cfg.nbz2 = 0
    /\ fs' = CleanTemp(fs, cfg.keep_temp)
    /\ exit' = Exited(ExitFailure)
    /\ pc' = "done"
    /\ UNCHANGED <<prog, cfg, fi, ci, writer, schema, counters, hist, fn_in, fn_out>>

\* lines 198-230: the connection, the output directory, the COPY, the cleanup
DuckCopy ==
    /\ prog = "duck" /\ pc = "copy"
    /\ cfg.direct \/ cfg.nbz2 > 0
    /\ fs' = CleanTemp([fs EXCEPT !.out_parent = TRUE, !.out_file = TRUE], cfg.keep_temp)
    /\ hist' = [hist EXCEPT !.summary = TRUE]
    /\ exit' = Exited(ExitSuccess)
    /\ pc' = "done"
    /\ UNCHANGED <<prog, cfg, fi, ci, writer, schema, counters, fn_in, fn_out>>

\* line 225: the COPY raises; nothing catches it
DuckCopyRaises ==
    /\ prog = "duck" /\ pc = "copy"
    /\ cfg.direct \/ cfg.nbz2 > 0
    /\ \E partial \in BOOLEAN : fs' = [fs EXCEPT !.out_parent = TRUE, !.out_file = partial]
    /\ hist' = [hist EXCEPT !.failure = "copy"]
    /\ exit' = Exited(ExitFailure)
    /\ pc' = "done"
    /\ UNCHANGED <<prog, cfg, fi, ci, writer, schema, counters, fn_in, fn_out>>

-----------------------------------------------------------------------------
(* The converters *)

Init ==
    /\ prog \in {"bz2", "mirror", "duck"}
    /\ pc = "start"
    /\ cfg \in CASE prog = "bz2" -> Bz2Configs
                 [] prog = "mirror" -> MirrorConfigs
                 [] OTHER -> {c \in DuckConfigs : DuckConfigOk(c)}
    /\ fs \in IF prog = "mirror" THEN {[Fs0 EXCEPT !.dst = d] : d \in DstStates(cfg.nfiles)}
              ELSE {Fs0}
    /\ fi = 0 /\ ci = 0
    /\ writer = Writer0
    /\ schema = NoSchema
    /\ counters = Counters0
    /\ exit = <<>>
    /\ hist = Hist0
    /\ fn_in = Idle /\ fn_out = Idle

Next ==
    \/ Bz2Start \/ Bz2EmptyChunk \/ Bz2Chunk \/ Bz2ChunkRaises
    \/ Bz2EndFile \/ Bz2ReadRaises \/ Bz2Finish
    \/ MirrorStart \/ MirrorSkip \/ MirrorConvert \/ MirrorConvertFails \/ MirrorFinish
    \/ DuckStart \/ DuckTranscode \/ DuckTranscodeRaises
    \/ DuckNoInputs \/ DuckCopy \/ DuckCopyRaises

Spec == Init /\ [][Next]_vars

-----------------------------------------------------------------------------
(* Properties of bz2_to_parquet main *)

Done == pc = "done"

\* every file of the enumeration went through its loop iteration
AllFilesProcessed == hist.ended = 1..cfg.nfiles

\* C1: schema pinning.  The canonical schema is set exactly once, by the first
\* non-empty chunk met, and never reassigned; every table handed to the writer
\* has exactly the column names of that first non-empty chunk, in the same order.
C1_SchemaPinned ==
    prog = "bz2" =>
        /\ hist.schemaSets <= 1
        /\ (hist.schemaSets = 1) = (hist.nonEmpty > 0)
        /\ SchemaIsNone(schema) = (hist.nonEmpty = 0)
        /\ ~SchemaIsNone(schema) => schema.names = hist.firstCols
        /\ hist.lastTable # NoTable => hist.lastTable.names = hist.firstCols

\* C1 witness: a second chunk with other columns than the first was written
C1_Witness ==
    /\ prog = "bz2"
    /\ hist.nonEmpty = 2
    /\ hist.firstCols = <<"a", "b">>
    /\ hist.lastTable.names = <<"a", "b">>
    /\ hist.last.read > 0
    /\ hist.failure = "none"
    /\ writer.rows = hist.chunkRows
    /\ counters.total_rows > hist.last.read
    /\ schema.names # <<>>
    /\ fi = 2

\* C3: row conservation.  For every non-empty chunk the row count after
\* coerce_chunk and after ensure_columns is the row count read, the table written
\* for it has that many rows, and total_rows is the sum of the row counts of the
\* chunks written so far.
C3_RowConservation ==
    prog = "bz2" =>
        /\ hist.last.coerced = hist.last.read
        /\ hist.last.ensured = hist.last.read
        /\ hist.last.table = hist.last.read
        /\ hist.last.written = hist.last.read
        /\ counters.total_rows = hist.chunkRows
        /\ writer.rows = hist.chunkRows

\* C3 witness: two chunks of different sizes, coerced and written in row groups
C3_Witness ==
    /\ prog = "bz2"
    /\ cfg.do_coerce /\ cfg.old_pyarrow
    /\ hist.nonEmpty = 2
    /\ hist.last.read = MaxChunkRows
    /\ counters.total_rows = MaxChunkRows + 1
    /\ hist.lastTable.types # <<"string", "string">>

\* C4: writer lifecycle.  The writer is opened at most once, only when the first
\* non-empty chunk arrives; nothing is written outside open..close; and on every
\* run that opened it, close has been called exactly once when the run ends, also
\* when an exception ended it.
C4_WriterLifecycle ==
    prog = "bz2" =>
        /\ writer.opens <= 1
        /\ writer.opens = 1 => hist.openedAt = 1
        /\ writer.stray = 0
        /\ writer.rows > 0 => writer.opens = 1
        /\ writer.closes <= writer.opens
        /\ ~Done => writer.closes = 0
        /\ Done => writer.closes = writer.opens
        /\ (writer.state = "closed") = (writer.closes = 1)

\* C4 witness: the reader of the second file raised after the writer was opened
C4_Witness ==
    /\ prog = "bz2"
    /\ Done
    /\ exit = Exited(ExitFailure)
    /\ hist.failure = "read"
    /\ fi = 2
    /\ writer.opens = 1
    /\ writer.closes = 1
    /\ writer.rows > 0

\* C7: empty result.  When every file has been processed and no row was written,
\* the run ends with status 2, no output file was created and the success summary
\* was not printed.
C7_EmptyResult ==
    (prog = "bz2" /\ Done /\ cfg.in_dir_ok /\ cfg.nfiles > 0
        /\ AllFilesProcessed /\ hist.chunkRows = 0) =>
            /\ exit = Exited(ExitEmpty)
            /\ exit # Exited(ExitSuccess) /\ exit # Exited(ExitFailure)
            /\ ~fs.out_file
            /\ ~hist.summary

\* C7 witness: two files, one of them unreadable in a way the reader catches, no rows
C7_Witness ==
    /\ prog = "bz2" /\ Done
    /\ cfg.nfiles = 2
    /\ AllFilesProcessed
    /\ hist.failed # {}
    /\ ci > 0
    /\ hist.chunkRows = 0
    /\ exit = Exited(ExitEmpty)

-----------------------------------------------------------------------------
(* Properties across the converters *)

\* C5: a per-file failure never aborts the job.  In the mirrored converter and in
\* the single-output converter, when reading or converting one input file fails,
\* that file is skipped and every other file of the enumeration is still processed.
C5_PerFileFailureNeverAborts ==
    (prog \in {"bz2", "mirror"} /\ Done /\ hist.failed # {}
        /\ hist.failure \in {"none", "read", "convert"}) =>
            \A f \in 1..cfg.nfiles : f \in hist.ended \/ f \in hist.failed

\* C6: no input is a fatal error raised before any output exists.  In each
\* converter, when there is no candidate input file or the input directory is
\* missing, the run ends with a failure status and nothing was created at the
\* destination: no output file, no output directory.
C6_NoInputFatalBeforeOutput ==
    (Done /\ (~cfg.in_dir_ok \/ cfg.nfiles = 0)) =>
        /\ exit = Exited(ExitFailure)
        /\ ~fs.out_parent
        /\ ~fs.out_file

\* C10: run summary accounting of the mirrored converter.  Every file seen is
\* counted once, as converted or as skipped: at completion total = converted +
\* skipped, and a file whose conversion failed is counted as skipped.
C10_SummaryAccounting ==
    (prog = "mirror" /\ Done /\ cfg.in_dir_ok) =>
        /\ counters.total = cfg.nfiles
        /\ counters.total = counters.converted + counters.skipped
        /\ counters.converted <= counters.total - Cardinality(hist.failed)

\* C11: an entirely empty input file is skipped, not an error.  It yields no
\* chunk, is reported as skipped and not counted in files_done; it neither sets
\* the schema nor opens the writer nor adds rows; and the run goes on to the
\* files after it as if it were absent.
C11_EmptyFileSkipped ==
    prog = "bz2" =>
        /\ \A f \in hist.empty : f \in hist.ended /\ f \in hist.skipped
        /\ counters.files_done <= Cardinality(hist.ended \ hist.empty)
        /\ (fi >= 2 /\ 1..(fi - 1) \subseteq hist.empty /\ hist.fileChunks = 0) =>
               /\ SchemaIsNone(schema)
               /\ WriterIsNone(writer)
               /\ counters.total_rows = 0
        /\ (Done /\ hist.failure = "none" /\ cfg.in_dir_ok) =>
               \A f \in hist.empty : \A g \in (f + 1)..cfg.nfiles : g \in hist.ended

\* C12: overwrite policy of the mirrored converter.  For every source file whose
\* destination exists while --overwrite is not set, convert_one is not called, the
\* destination is left as it was and the file is counted as skipped; a destination
\* is written only when it did not exist or --overwrite is set.
C12_OverwritePolicy ==
    (prog = "mirror" /\ pc # "start" /\ cfg.in_dir_ok) =>
        /\ \A f \in 1..cfg.nfiles :
              LET existed == hist.dst0[f] # "absent"
              IN  /\ (f < fi /\ existed /\ ~cfg.overwrite) =>
                         /\ f \notin hist.called
                         /\ fs.dst[f] = hist.dst0[f]
                         /\ f \in hist.skipped
                  /\ f \in hist.called => ~existed \/ cfg.overwrite
                  /\ fs.dst[f] # hist.dst0[f] => f \in hist.called
                  /\ f \in hist.skipped => existed /\ ~cfg.overwrite
        /\ counters.skipped = Cardinality(hist.skipped)

\* C12 witness: without --overwrite, the first destination existed and was left
\* alone, the second did not and was written
C12_Witness ==
    /\ prog = "mirror" /\ Done
    /\ ~cfg.overwrite
    /\ cfg.nfiles = 2
    /\ hist.dst0 = <<"old", "absent">>
    /\ fs.dst = <<"old", "new">>
    /\ hist.skipped = {1}
    /\ hist.called = {2}
    /\ counters.skipped = 1 /\ counters.converted = 1

-----------------------------------------------------------------------------
(* detect_format of bz2_to_parquet and of duckdb_bz2_to_parquet *)

\* n.endswith(suf) and n.endswith((suf, ...))
EndsWith(s, suf) ==
    Len(s) >= Len(suf) /\ SubSeq(s, Len(s) - Len(suf) + 1, Len(s)) = suf

EndsWithAny(s, sufs) == \E suf \in sufs : EndsWith(s, suf)

Bz2Suffix == <<".", "b", "z", "2">>

\* the suffixes bz2_to_parquet.detect_format tests
Bz2JsonlSuffixes == { <<".", "j", "s", "o", "n", "l", ".", "b", "z", "2">>,
                      <<".", "n", "d", "j", "s", "o", "n", ".", "b", "z", "2">> }

Bz2CsvSuffixes == { <<".", "c", "s", "v", ".", "b", "z", "2">> }

\* the suffixes duckdb_bz2_to_parquet.detect_format tests
DuckJsonlSuffixes ==
    { <<".", "j", "s", "o", "n", "l">>,
      <<".", "n", "d", "j", "s", "o", "n">>,
      <<".", "j", "s", "o", "n", "l", ".", "g", "z">>,
      <<".", "n", "d", "j", "s", "o", "n", ".", "g", "z">>,
      <<".", "j", "s", "o", "n", "l", ".", "z", "s", "t">>,
      <<".", "n", "d", "j", "s", "o", "n", ".", "z", "s", "t">> }

DuckCsvSuffixes ==
    { <<".", "c", "s", "v">>,
      <<".", "c", "s", "v", ".", "g", "z">>,
      <<".", "c", "s", "v", ".", "z", "s", "t">> }

\* str.strip(): leading and trailing whitespace removed
IsSpace(c) == c \in {" ", "\t"}

Strip(line) ==
    LET inked == {i \in DOMAIN line : ~IsSpace(line[i])}
    IN  IF inked = {} THEN <<>>
        ELSE SubSeq(line, CHOOSE i \in inked : \A j \in inked : i <= j,
                          CHOOSE i \in inked : \A j \in inked : j <= i)

\* the loop `for line in fh` of the sniffers over a file [lines, fails]: the lines
\* the decompressor delivers, then the end of the file or, if fails, an exception
\* (bz2.open or a read raising: a missing, unreadable, truncated or corrupt file);
\* the result is what the first non-blank line says, "none" when the loop ends or
\* raises before one
SniffLine(file) ==
    LET inked == {i \in DOMAIN file.lines : Strip(file.lines[i]) # <<>>}
    IN  IF inked = {} THEN "none"
        ELSE LET s == Strip(file.lines[CHOOSE i \in inked : \A j \in inked : i <= j])
             IN  IF s[1] \in {"{", "["} THEN "jsonl" ELSE "csv"

\* sorted([p for p in d.glob("*.bz2") if p.is_file()])
list_bz2_top_level(files) == SelectSeq(files, LAMBDA f : EndsWith(f.name, Bz2Suffix))

\* sorted([p for p in dirpath.iterdir() if p.is_file()])
list_top_level(files) == files

\* bz2_to_parquet.detect_format(files), files not empty
detect_format(files) ==
    IF \E i \in DOMAIN files : EndsWithAny(StrLower(files[i].name), Bz2JsonlSuffixes)
    THEN "jsonl"
    ELSE IF \E i \in DOMAIN files : EndsWithAny(StrLower(files[i].name), Bz2CsvSuffixes)
    THEN "csv"
    ELSE IF SniffLine(files[1]) = "jsonl" THEN "jsonl" ELSE "csv"

\* duckdb_bz2_to_parquet.sniff_bz2_is_jsonl(path)
sniff_bz2_is_jsonl(file) == SniffLine(file) = "jsonl"

\* duckdb_bz2_to_parquet.detect_format(files)
DuckDetectFormat(files) ==
    IF \E i \in DOMAIN files : EndsWithAny(StrLower(files[i].name), DuckJsonlSuffixes)
    THEN "jsonl"
    ELSE IF \E i \in DOMAIN files : EndsWithAny(StrLower(files[i].name), DuckCsvSuffixes)
    THEN "csv"
    ELSE LET bz2s == SelectSeq(files, LAMBDA f : EndsWith(StrLower(f.name), Bz2Suffix))
         IN  IF Len(bz2s) > 0
             THEN IF sniff_bz2_is_jsonl(bz2s[1]) THEN "jsonl" ELSE "csv"
             ELSE "csv"

-----------------------------------------------------------------------------
(* Harness of detect_format: the top level of an input directory *)

\* file names, in sorted order
NamePool ==
    << <<"B", ".", "N", "D", "J", "S", "O", "N", ".", "b", "z", "2">>,
       <<"a", ".", "b", "z", "2">>,
       <<"c", ".", "c", "s", "v", ".", "b", "z", "2">>,
       <<"d", ".", "j", "s", "o", "n", "l", ".", "b", "z", "2">>,
       <<"e", ".", "c", "s", "v", ".", "g", "z">>,
       <<"f", ".", "j", "s", "o", "n", "l">>,
       <<"g", ".", "t", "x", "t">> >>

\* what reading a file gives: its first lines, then the end or an exception
ContentPool ==
    { [lines |-> <<>>, fails |-> FALSE],
      [lines |-> <<>>, fails |-> TRUE],
      [lines |-> << <<" ">> >>, fails |-> FALSE],
      [lines |-> << <<" ">> >>, fails |-> TRUE],
      [lines |-> << <<" ">>, <<"{", "x">> >>, fails |-> FALSE],
      [lines |-> << <<"[", "1">> >>, fails |-> TRUE],
      [lines |-> << <<"\t", "{">> >>, fails |-> FALSE],
      [lines |-> << <<"a", ",", "b">>, <<"{">> >>, fails |-> FALSE] }

\* the sorted listings of directories of one to MaxFiles files
Listings ==
    UNION { [1..n -> [name : Range(NamePool), lines : {c.lines : c \in ContentPool},
                      fails : BOOLEAN]] : n \in 1..MaxFiles }

NameIndex(name) == CHOOSE i \in DOMAIN NamePool : NamePool[i] = name

DetectInputs ==
    { fl \in Listings :
        /\ \A i \in DOMAIN fl : [lines |-> fl[i].lines, fails |-> fl[i].fails] \in ContentPool
        /\ \A i \in DOMAIN fl : i > 1 => NameIndex(fl[i - 1].name) < NameIndex(fl[i].name) }

InitDetect ==
    /\ prog = "detect_format"
    /\ pc = "call"
    /\ fn_in \in DetectInputs
    /\ fn_out = Idle
    /\ cfg = Idle /\ fi = 0 /\ ci = 0 /\ writer = Idle /\ schema = Idle
    /\ counters = Idle /\ fs = Idle /\ exit = Idle /\ hist = Idle

\* fmt = detect_format(files) in the main of each converter (--format auto); the
\* main of bz2_to_parquet exits before the call when no *.bz2 file is listed
CallDetect ==
    /\ prog = "detect_format" /\ pc = "call"
    /\ fn_out' = [bz2  |-> IF list_bz2_top_level(fn_in) = <<>> THEN "exit"
                           ELSE detect_format(list_bz2_top_level(fn_in)),
                  duck |-> DuckDetectFormat(list_top_level(fn_in))]
    /\ pc' = "returned"
    /\ UNCHANGED <<prog, cfg, fi, ci, writer, schema, counters, fs, exit, hist, fn_in>>

NextDetect == CallDetect

SpecDetect == InitDetect /\ [][NextDetect]_vars

DetectReturned == prog = "detect_format" /\ pc = "returned"

\* the claim's terms: a name carries a line-records suffix when, case and a
\* compression extension aside, it ends in .jsonl or .ndjson; a delimited-text
\* suffix when it ends in .csv
Uncompressed(name) ==
    IF EndsWithAny(name, {<<".", "b", "z", "2">>, <<".", "g", "z">>, <<".", "z", "s", "t">>})
    THEN SubSeq(name, 1, Len(name) - (IF EndsWith(name, <<".", "g", "z">>) THEN 3 ELSE 4))
    ELSE name

HasLineRecordsSuffix(f) ==
    EndsWithAny(Uncompressed(StrLower(f.name)), {<<".", "j", "s", "o", "n", "l">>, <<".", "n", "d", "j", "s", "o", "n">>})

HasDelimitedSuffix(f) == EndsWith(Uncompressed(StrLower(f.name)), <<".", "c", "s", "v">>)

\* the first character that is not white space of the first line that has one,
\* among the lines read before the file ends or fails
FirstInk(f) ==
    LET flat == [i \in DOMAIN f.lines |-> SelectSeq(f.lines[i], LAMBDA c : ~IsSpace(c))]
        inked == SelectSeq(flat, LAMBDA l : l # <<>>)
    IN  IF inked = <<>> THEN "" ELSE inked[1][1]

\* the format the claim gives for the candidates c
ExpectedFormat(c) ==
    IF \E i \in DOMAIN c : HasLineRecordsSuffix(c[i]) THEN "jsonl"
    ELSE IF \E i \in DOMAIN c : HasDelimitedSuffix(c[i]) THEN "csv"
    ELSE IF FirstInk(c[1]) \in {"{", "["} THEN "jsonl"
    ELSE "csv"

\* C13: format auto-detection priority.  In both converters: a candidate with a
\* line-records suffix makes the result jsonl, even after a delimited-text one;
\* else a candidate with a delimited-text suffix makes it csv; else the first
\* non-blank line of the first candidate decides, jsonl exactly when it starts
\* with '{' or '[', csv otherwise and when the file is empty or unreadable.
C13_DetectPriority ==
    DetectReturned =>
        /\ fn_out.bz2 # "exit" => fn_out.bz2 = ExpectedFormat(list_bz2_top_level(fn_in))
        /\ fn_out.duck = ExpectedFormat(list_top_level(fn_in))

-----------------------------------------------------------------------------
(* Properties of duckdb_bz2_to_parquet main *)

\* C14: temporary-directory cleanup.  Whenever a temp directory was created for
\* the transcoding and --keep-temp is not set, it has been removed when the run
\* ends, on every exit path: normal completion, the no-readable-inputs exit, a
\* failure while transcoding, a failure of the COPY.
C14_TempDirCleanup ==
    (prog = "duck" /\ Done /\ fs.tempdir # "none" /\ ~cfg.keep_temp) =>
        fs.tempdir = "removed"

====
